---- MODULE Spec2Model ----
(***************************************************************************)
(* A model of FritterRouterMiddleware                                      *)
(* (src/src/classes/FritterRouterMiddleware.ts): the route registry        *)
(* (addRoute, removeRoute, getRoutes), the loaders (loadRoutesFile,        *)
(* loadRoutesDirectory) and the dispatcher (execute and its inner          *)
(* executeMiddleware).                                                     *)
(*                                                                         *)
(* Strings that the code inspects character by character (path segments,   *)
(* captured substrings, decoded parameter values) are sequences of         *)
(* one-character strings.  A request path is the sequence of its segments  *)
(* ("/a/42" is << <<"a">>, <<"4","2">> >>); a route path is a sequence of  *)
(* pattern tokens.                                                         *)
(*                                                                         *)
(* One step of the model is one synchronous run of JavaScript: from the    *)
(* call of execute, or from the settling of an awaited promise, up to the  *)
(* next point where a chain element takes control.                         *)
(*                                                                         *)
(* Specifications:                                                         *)
(*   Spec             one context dispatched while the registry changes;   *)
(*   SpecRegistry     the registry and its callers, each call recorded;    *)
(*   SpecLoader       the registry filled from files and directories;      *)
(*   SpecConcurrent   two contexts dispatched on a fixed registry;         *)
(*   SpecTermination  one context dispatched on a fixed registry, where    *)
(*                    every function that was called settles in the end.   *)
(***************************************************************************)
EXTENDS Integers, Sequences, FiniteSets, TLC

\* ------------------------------------------------------------- bounds

\* Longest registry the model builds.
MaxRoutes == 2

\* How many times in one dispatch a chain element may invoke the continuation
\* it was handed once more, after having invoked it already.
MaxRepeats == 1

\* Context objects (one per request in flight).
NumContexts == 2

Contexts == 1..NumContexts

\* Spec dispatches on the first context only.
DispatchContexts == {1}

\* SpecConcurrent keeps two dispatches in flight.
ConcurrentContexts == {1, 2}

\* ------------------------------------------------------------- values

\* The value of a promise that settled without an error.
NoError == "none"

\* What decodeURIComponent throws on malformed percent-encoding.
URIError == "URIError"

\* Errors a chain element may raise.
HandlerErrors == {"E1"}

\* A capture group that did not take part in the match (JavaScript's undefined).
Undefined == <<"undefined">>

\* A failed RegExp.exec (JavaScript's null).
Null == <<"null">>

\* The function the dispatcher calls when the cursor is past the chain.
NextFn == "next"

\* No route was matched by the dispatch.
NoRoute == [id |-> 0, method |-> "ALL", path |-> <<>>, middlewares |-> <<>>, handler |-> NextFn]

\* The empty parameter mapping ({}).
EmptyParameters == [n \in {} |-> <<>>]

Put(map, key, value) ==
    [n \in (DOMAIN map) \cup {key} |-> IF n = key THEN value ELSE map[n]]

\* ------------------------------------------------------------- inputs

Lit(s) == [t |-> "lit", v |-> s, name |-> "", opt |-> FALSE]
Param(n, o) == [t |-> "param", v |-> <<>>, name |-> n, opt |-> o]
Group == [t |-> "group", v |-> <<>>, name |-> "", opt |-> FALSE]

\* "/a/:x"
PathA == << Lit(<<"a">>), Param("x", FALSE) >>
\* "/f/:name?/(...)": an optional parameter, then a capture group that the
\* compiler reports no key for
PathF == << Lit(<<"f">>), Param("name", TRUE), Group >>

Route1 == [id |-> 1, method |-> "GET", path |-> PathA, middlewares |-> <<"m1a", "m1b">>, handler |-> "h1"]
Route2 == [id |-> 2, method |-> "ALL", path |-> PathA, middlewares |-> <<>>, handler |-> "h2"]
Route3 == [id |-> 3, method |-> "POST", path |-> PathF, middlewares |-> <<"m3">>, handler |-> "h3"]

\* The route objects the embedder holds references to.
RouteObjects == {Route1, Route2, Route3}

\* Request methods (members of HTTPMethod; "ALL" is not one of them).
Methods == {"GET", "POST"}

\* Request paths: "/a/4%202", "/a/%E0", "/f/7", "/zz".
RequestPaths ==
    { << <<"a">>, <<"4", "%", "2", "0", "2">> >>,
      << <<"a">>, <<"%", "E", "0">> >>,
      << <<"f">>, <<"7">> >>,
      << <<"z", "z">> >> }

\* What a loader finds at a path.  A file has an extension and the exports
\* of its module: fritterRouterRoute as a sequence of at most one route and
\* fritterRouterRoutes as a sequence, each empty when the export is absent.
\* A directory has its entries in the order readdir lists them.
File(ext, one, many) ==
    [isDirectory |-> FALSE, ext |-> ext, fritterRouterRoute |-> one,
     fritterRouterRoutes |-> many, entries |-> <<>>]

Directory(entries) ==
    [isDirectory |-> TRUE, ext |-> "", fritterRouterRoute |-> <<>>,
     fritterRouterRoutes |-> <<>>, entries |-> entries]

FileOne == File(".js", <<Route1>>, <<>>)
FileMany == File(".js", <<>>, <<Route3, Route2>>)
FileBoth == File(".js", <<Route1>>, <<Route2>>)
FileNone == File(".js", <<>>, <<>>)
FileText == File(".txt", <<Route3>>, <<>>)

Files == {FileOne, FileMany, FileBoth, FileNone}

Directories ==
    { Directory(<<>>),
      Directory(<<FileOne, FileText>>),
      Directory(<<FileText, Directory(<<FileBoth>>)>>),
      Directory(<<Directory(<<FileOne>>), FileNone, File(".js", <<>>, <<Route3>>)>>) }

\* ------------------------------------------------------------- decodeURIComponent

HexDigits == <<"0", "1", "2", "3", "4", "5", "6", "7", "8", "9", "A", "B", "C", "D", "E", "F">>

IsHex(ch) == \E i \in 1..Len(HexDigits) : HexDigits[i] = ch

HexValue(ch) == (CHOOSE i \in 1..Len(HexDigits) : HexDigits[i] = ch) - 1

\* The characters of the code points 0x20..0x3F; the model's inputs escape no
\* other one-byte code point.
Ascii ==
    <<" ", "!", "\"", "#", "$", "%", "&", "'", "(", ")", "*", "+", ",", "-", ".", "/",
      "0", "1", "2", "3", "4", "5", "6", "7", "8", "9", ":", ";", "<", "=", ">", "?">>

\* The character of a one-byte code point.
CharOf(byte) ==
    IF byte >= 32 /\ byte - 31 <= Len(Ascii) THEN Ascii[byte - 31] ELSE "other"

Decoded(chars) == [ok |-> TRUE, v |-> chars]

Malformed == [ok |-> FALSE, v |-> <<>>]

RECURSIVE DecodeChars(_)
\* The decoding of a character sequence.  An escape is "%" and two hex digits;
\* a truncated escape is malformed, and so is an escaped byte of 0x80 or more
\* that the following escapes do not complete to a UTF-8 sequence (the model's
\* inputs hold at most one such byte, which nothing completes).
DecodeChars(s) ==
    IF s = <<>> THEN Decoded(<<>>)
    ELSE IF Head(s) # "%"
         THEN LET rest == DecodeChars(Tail(s))
              IN  IF rest.ok THEN Decoded(<<Head(s)>> \o rest.v) ELSE Malformed
         ELSE IF Len(s) < 3 \/ ~IsHex(s[2]) \/ ~IsHex(s[3]) THEN Malformed
              ELSE LET byte == 16 * HexValue(s[2]) + HexValue(s[3])
                       rest == DecodeChars(SubSeq(s, 4, Len(s)))
                   IN  IF byte >= 128 \/ ~rest.ok THEN Malformed
                       ELSE Decoded(<<CharOf(byte)>> \o rest.v)

\* decodeURIComponent(match): its argument is converted to a string first, so
\* an undefined argument is decoded as the text "undefined".
decodeURIComponent(match) ==
    IF match = Undefined
    THEN Decoded(<<"u", "n", "d", "e", "f", "i", "n", "e", "d">>)
    ELSE DecodeChars(match)

\* ------------------------------------------------------------- pathToRegexp

RECURSIVE KeysOf(_)
\* The keys pathToRegexp pushes to rawRouteParameters: one per named
\* parameter, in the order of the path.
KeysOf(tokens) ==
    IF tokens = <<>> THEN <<>>
    ELSE IF Head(tokens).t = "param"
         THEN <<Head(tokens).name>> \o KeysOf(Tail(tokens))
         ELSE KeysOf(Tail(tokens))

NoMatch == [ok |-> FALSE, caps |-> <<>>]

RECURSIVE MatchTokens(_, _)
\* The regular expression of a path, applied to the segments of a request
\* path: [ok, caps], caps holding one entry per capture group.  A literal
\* matches an equal segment, a parameter or a group captures one segment, and
\* an optional parameter that captures nothing yields Undefined.
MatchTokens(tokens, segs) ==
    IF tokens = <<>> THEN [ok |-> segs = <<>>, caps |-> <<>>]
    ELSE LET tok == Head(tokens)
             taken == IF segs = <<>> THEN NoMatch ELSE MatchTokens(Tail(tokens), Tail(segs))
             skipped == MatchTokens(Tail(tokens), segs)
         IN  IF tok.t = "lit"
             THEN IF segs # <<>> /\ Head(segs) = tok.v THEN taken ELSE NoMatch
             ELSE IF taken.ok
                  THEN [ok |-> TRUE, caps |-> <<Head(segs)>> \o taken.caps]
                  ELSE IF tok.opt /\ skipped.ok
                       THEN [ok |-> TRUE, caps |-> <<Undefined>> \o skipped.caps]
                       ELSE NoMatch

\* pathToRegexp(route.path, rawRouteParameters, options): the compiled
\* expression and the keys it reported.
pathToRegexp(path) == [tokens |-> path, keys |-> KeysOf(path)]

\* regExp.exec(path): null, or the capture groups of the match (matches.slice(1)).
Exec(regExp, requestPath) ==
    LET m == MatchTokens(regExp.tokens, requestPath)
    IN  [null |-> ~m.ok, groups |-> m.caps]

\* ------------------------------------------------------------- state

VARIABLES
    routes,           \* this.routes
    routeParameters,  \* fritterContext.routeParameters, per context object
    status,           \* per context: "idle", or the state of its latest dispatch
    request,          \* per context: the method and path of the fritterRequest
    stale,            \* per dispatch: the context held parameters on entry
    scanned,          \* per dispatch: what the loop did with each route it visited
    route,            \* per dispatch: the loop variable at the match, or NoRoute
    middlewares,      \* per dispatch: the chain built from the matched route
    currentIndex,     \* per dispatch: the cursor of executeMiddleware
    stack,            \* per dispatch: the calls in progress, innermost last
    pending,          \* per dispatch: the error the innermost awaited call rejected with
    thrown,           \* per dispatch: the error execute rejected with
    log,              \* per dispatch: the calls, continuations and errors so far
    called            \* the latest call of a public method, when calls are recorded

vars ==
    <<routes, routeParameters, status, request, stale, scanned, route,
      middlewares, currentIndex, stack, pending, thrown, log, called>>

\* The contexts and their dispatches.
Dispatch ==
    <<routeParameters, status, request, stale, scanned, route, middlewares,
      currentIndex, stack, pending, thrown, log>>

\* The part of the state that belongs to context c and its dispatch.
DispatchOf(c) ==
    <<routeParameters[c], status[c], request[c], stale[c], scanned[c], route[c],
      middlewares[c], currentIndex[c], stack[c], pending[c], thrown[c], log[c]>>

Frame(fn) == [fn |-> fn, calls |-> 0]

Event(ev, fn, err) == [ev |-> ev, fn |-> fn, err |-> err]

NoRequest == [method |-> "", path |-> <<>>]

\* What a call that is not a dispatch records of the call before it.
NoPrior == [op |-> "", argument |-> NoRoute]

\* No public method has been called; calls are not recorded.
NotCalled ==
    [on |-> FALSE, op |-> "", argument |-> NoRoute, before |-> <<>>,
     returned |-> <<>>, again |-> FALSE, prior |-> NoPrior]

\* The record of a call of the method `op`: its argument (a route, or what
\* is at the path given to a loader), the registry it found and the list it
\* returned.  For a call of execute: the route the context's previous
\* dispatch matched, whether the request is the one the context dispatched
\* before, and the method and argument of the call before.
Recorded(op, argument, returned, again, prior) ==
    IF called.on
    THEN [on |-> TRUE, op |-> op, argument |-> argument, before |-> routes,
          returned |-> returned, again |-> again, prior |-> prior]
    ELSE called

\* No context has been dispatched.
Idle ==
    /\ routeParameters = [c \in Contexts |-> EmptyParameters]
    /\ status = [c \in Contexts |-> "idle"]
    /\ request = [c \in Contexts |-> NoRequest]
    /\ stale = [c \in Contexts |-> FALSE]
    /\ scanned = [c \in Contexts |-> <<>>]
    /\ route = [c \in Contexts |-> NoRoute]
    /\ middlewares = [c \in Contexts |-> <<>>]
    /\ currentIndex = [c \in Contexts |-> -1]
    /\ stack = [c \in Contexts |-> <<>>]
    /\ pending = [c \in Contexts |-> NoError]
    /\ thrown = [c \in Contexts |-> NoError]
    /\ log = [c \in Contexts |-> <<>>]

\* new FritterRouterMiddleware(): the registry is empty.
Init ==
    /\ routes = <<>>
    /\ called = NotCalled
    /\ Idle

\* ------------------------------------------------------------- registry

\* A faulty variant of Push: a route already registered is not added again.
PushUnique(rs, r) == IF \E i \in 1..Len(rs) : rs[i] = r THEN rs ELSE Append(rs, r)

\* this.routes.push(route)
Push(rs, r) == Append(rs, r)

\* this.routes.indexOf(route): the first index holding the object, 0 for -1.
IndexOf(rs, r) ==
    IF \E i \in 1..Len(rs) : rs[i] = r
    THEN CHOOSE i \in 1..Len(rs) : rs[i] = r /\ \A j \in 1..(i - 1) : rs[j] # r
    ELSE 0

\* A faulty variant of Splice: splice(index, 0), which removes nothing.
SpliceNothing(rs, index) == rs

\* this.routes.splice(index, 1)
Splice(rs, index) == SubSeq(rs, 1, index - 1) \o SubSeq(rs, index + 1, Len(rs))

addRoute(r) ==
    /\ Len(routes) < MaxRoutes
    /\ routes' = Push(routes, r)
    /\ called' = Recorded("addRoute", r, <<>>, FALSE, NoPrior)
    /\ UNCHANGED Dispatch

\* A faulty variant of Removed: the index is spliced without the test for -1
\* (splice(-1, 1) removes the last entry).
RemovedUnchecked(rs, r) ==
    LET index == IndexOf(rs, r)
    IN  IF index # 0 THEN Splice(rs, index) ELSE SubSeq(rs, 1, Len(rs) - 1)

\* The registry after removeRoute(r): the entry at indexOf(r) is spliced out
\* if indexOf found one.
Removed(rs, r) ==
    LET index == IndexOf(rs, r)
    IN  IF index # 0 THEN Splice(rs, index) ELSE rs

removeRoute(r) ==
    /\ routes' = Removed(routes, r)
    /\ called' = Recorded("removeRoute", r, <<>>, FALSE, NoPrior)
    /\ UNCHANGED Dispatch

\* The list loadRoutesFile builds and returns: the fritterRouterRoute export,
\* then the entries of the fritterRouterRoutes export; each is also handed to
\* addRoute.
FileRoutes(file) == file.fritterRouterRoute \o file.fritterRouterRoutes

loadRoutesFile(file) ==
    /\ Len(routes) + Len(FileRoutes(file)) <= MaxRoutes
    /\ routes' = routes \o FileRoutes(file)
    /\ called' = Recorded("loadRoutesFile", file, FileRoutes(file), FALSE, NoPrior)
    /\ UNCHANGED Dispatch

\* directoryRoutes.push(...directoryRoutes) after a file was loaded: the list
\* declared in the else block hides the list of the function, so the routes
\* of the file are pushed onto the list loadRoutesFile returned, and the list
\* of the function stays as it was.
PushFileRoutes(directoryRoutes, fileRoutes) == directoryRoutes

RECURSIVE LoadEntries(_, _, _, _)
\* The loop of loadRoutesDirectory from entry i on, with the registry and the
\* list directoryRoutes as they are then: a subdirectory is loaded by a
\* recursive call whose result is pushed onto directoryRoutes, a file that is
\* not a .js file is passed over, a .js file is loaded by loadRoutesFile.
LoadEntries(entries, i, registry, directoryRoutes) ==
    IF i > Len(entries)
    THEN [registry |-> registry, directoryRoutes |-> directoryRoutes]
    ELSE IF entries[i].isDirectory
         THEN LET sub == LoadEntries(entries[i].entries, 1, registry, <<>>)
              IN  LoadEntries(entries, i + 1, sub.registry,
                              directoryRoutes \o sub.directoryRoutes)
         ELSE IF entries[i].ext # ".js"
              THEN LoadEntries(entries, i + 1, registry, directoryRoutes)
              ELSE LoadEntries(entries, i + 1,
                               registry \o FileRoutes(entries[i]),
                               PushFileRoutes(directoryRoutes, FileRoutes(entries[i])))

loadRoutesDirectory(directory) ==
    /\ \E loaded \in {LoadEntries(directory.entries, 1, routes, <<>>)} :
           /\ Len(loaded.registry) <= MaxRoutes
           /\ routes' = loaded.registry
           /\ called' = Recorded("loadRoutesDirectory", directory,
                                 loaded.directoryRoutes, FALSE, NoPrior)
    /\ UNCHANGED Dispatch

\* getRoutes(): the array itself is returned.
getRoutes ==
    /\ called' = Recorded("getRoutes", NoRoute, routes, FALSE, NoPrior)
    /\ UNCHANGED <<routes, Dispatch>>

\* ------------------------------------------------------------- dispatcher

\* A faulty variant of ResetParameters: the mapping of the earlier dispatch is kept.
KeepParameters(old) == old

\* fritterContext.routeParameters = {}
ResetParameters(old) == EmptyParameters

\* A faulty variant of MethodMatches: "ALL" is compared like any other method.
MethodEquals(r, method) == r.method = method

\* The method check: the route is not skipped.
MethodMatches(r, method) == ~(r.method # "ALL" /\ r.method # method)

\* One iteration of the loop up to the match: what becomes of the route.
Visit(r, method, path) ==
    IF ~MethodMatches(r, method) THEN "skipped"
    ELSE IF Exec(pathToRegexp(r.path), path).null THEN "unmatched"
         ELSE "matched"

\* A faulty variant of ScanFrom: the loop goes on after a match, so that the last
\* matching route is the one it ends at.
ScanToLast(rs, i, method, path) ==
    LET hits == {k \in i..Len(rs) : Visit(rs[k], method, path) = "matched"}
        last == IF hits = {} THEN Len(rs)
                ELSE CHOOSE k \in hits : \A h \in hits : h <= k
    IN  [k \in 1..(last - i + 1) |-> Visit(rs[i + k - 1], method, path)]

RECURSIVE ScanFrom(_, _, _, _)
\* The loop over this.routes from index i: the outcome of every route it
\* visits; it visits nothing after a match.
ScanFrom(rs, i, method, path) ==
    IF i > Len(rs) THEN <<>>
    ELSE IF Visit(rs[i], method, path) = "matched" THEN <<"matched">>
         ELSE <<Visit(rs[i], method, path)>> \o ScanFrom(rs, i + 1, method, path)

ScanRoutes(rs, method, path) == ScanFrom(rs, 1, method, path)

\* The index of the route the loop matched, 0 when it ran to the end.
MatchedIndex(outcomes) ==
    IF outcomes # <<>> /\ outcomes[Len(outcomes)] = "matched" THEN Len(outcomes) ELSE 0

RECURSIVE AddLenient(_, _, _, _)
\* A faulty variant of AddFrom: a capture that cannot be decoded is passed over.
AddLenient(parameters, keys, groups, i) ==
    IF i > Len(groups) THEN [parameters |-> parameters, error |-> NoError]
    ELSE IF i > Len(keys) \/ ~decodeURIComponent(groups[i]).ok
         THEN AddLenient(parameters, keys, groups, i + 1)
         ELSE AddLenient(Put(parameters, keys[i], decodeURIComponent(groups[i]).v),
                         keys, groups, i + 1)

\* A faulty variant of AddFrom: the captures are stored as they were matched.
AddRaw(parameters, keys, groups, i) ==
    [parameters |->
        [n \in (DOMAIN parameters) \cup {keys[k] : k \in i..Len(keys)} |->
            IF \E k \in i..Len(keys) : keys[k] = n
            THEN groups[CHOOSE k \in i..Len(keys) : keys[k] = n]
            ELSE parameters[n]],
     error |-> NoError]

RECURSIVE AddFrom(_, _, _, _)
\* The loop over matches.slice(1).entries() from matchIndex i (counted from 1):
\* a capture whose rawRouteParameters entry is missing is passed over; a
\* decoding that throws ends the loop with the entries set so far.
AddFrom(parameters, keys, groups, i) ==
    IF i > Len(groups) THEN [parameters |-> parameters, error |-> NoError]
    ELSE IF i > Len(keys) THEN AddFrom(parameters, keys, groups, i + 1)
         ELSE IF ~decodeURIComponent(groups[i]).ok
              THEN [parameters |-> parameters, error |-> URIError]
              ELSE AddFrom(Put(parameters, keys[i], decodeURIComponent(groups[i]).v),
                           keys, groups, i + 1)

AddRouteParameters(parameters, keys, groups) == AddFrom(parameters, keys, groups, 1)

\* [...route.middlewares ?? [], route.handler]
ChainOf(r) == r.middlewares \o <<r.handler>>

\* A faulty variant of executeMiddleware: past the chain it calls nothing.
executeMiddlewareStops(index, chain) ==
    [currentIndex |-> index + 1,
     calls |-> IF index + 2 <= Len(chain) THEN <<chain[index + 2]>> ELSE <<>>]

\* A faulty variant of executeMiddleware: the last element of the chain is taken for
\* its end.
executeMiddlewareShort(index, chain) ==
    [currentIndex |-> index + 1,
     calls |-> IF index + 2 < Len(chain) THEN <<chain[index + 2]>> ELSE <<NextFn>>]

\* A faulty variant of executeMiddleware: past the end of the chain the cursor
\* starts over at the first element.
executeMiddlewareRestarts(index, chain) ==
    LET at == IF index + 2 <= Len(chain) THEN index + 1 ELSE 0
    IN  [currentIndex |-> at, calls |-> <<chain[at + 1]>>]

\* One call of executeMiddleware: the cursor advances, and the call it makes
\* (and awaits) is of the element under the cursor (middlewares[currentIndex],
\* counted from 0), or of the outer next when there is none.
executeMiddleware(index, chain) ==
    [currentIndex |-> index + 1,
     calls |-> IF index + 2 <= Len(chain) THEN <<chain[index + 2]>> ELSE <<NextFn>>]

\* A faulty variant of Fallthrough: execute returns when the loop ends.
FallthroughMissing == <<>>

\* The call execute makes (and awaits) after a loop that matched nothing.
Fallthrough == <<NextFn>>

\* A faulty variant of Settle: the promise of execute stays pending.
SettleNever(error) == [status |-> "running", thrown |-> NoError]

\* A faulty variant of Settle: the error of the awaited call is swallowed.
SettleSwallowed(error) == [status |-> "done", thrown |-> NoError]

\* How an async function settles when the call it awaits last has settled
\* with `error`: nothing catches, so it rejects with the same error.
Settle(error) ==
    [status |-> IF error = NoError THEN "done" ELSE "failed", thrown |-> error]

\* The synchronous part of execute: the reset, the loop up to the match, the
\* parameters, and the first call of executeMiddleware; or, with no match, the
\* loop to its end and the call of the outer next.
Entered(rs, old, method, path) ==
    LET outcomes == ScanRoutes(rs, method, path)
        index == MatchedIndex(outcomes)
    IN  IF index = 0
        THEN [outcomes |-> outcomes, route |-> NoRoute,
              parameters |-> ResetParameters(old), error |-> NoError,
              chain |-> <<>>, currentIndex |-> -1, calls |-> Fallthrough]
        ELSE LET regExp == pathToRegexp(rs[index].path)
                 matches == Exec(regExp, path)
                 added == AddRouteParameters(ResetParameters(old), regExp.keys,
                                             matches.groups)
                 step == executeMiddleware(-1, ChainOf(rs[index]))
             IN  IF added.error # NoError
                 THEN [outcomes |-> outcomes, route |-> rs[index],
                       parameters |-> added.parameters, error |-> added.error,
                       chain |-> <<>>, currentIndex |-> -1, calls |-> <<>>]
                 ELSE [outcomes |-> outcomes, route |-> rs[index],
                       parameters |-> added.parameters, error |-> NoError,
                       chain |-> ChainOf(rs[index]),
                       currentIndex |-> step.currentIndex, calls |-> step.calls]

\* A faulty variant of Iterated: the loop consumes the entries it visits
\* (shift() in place of for...of).
IteratedShifting(rs, outcomes) == SubSeq(rs, Len(outcomes) + 1, Len(rs))

\* The registry after the loop over it: for...of only reads the array.
Iterated(rs, outcomes) == rs

Frames(calls) == [i \in 1..Len(calls) |-> Frame(calls[i])]

CallEvents(calls) == [i \in 1..Len(calls) |-> Event("call", calls[i], NoError)]

execute(c, method, path) ==
    /\ status[c] # "running"
    /\ \E entered \in {Entered(routes, routeParameters[c], method, path)} :
           /\ request' = [request EXCEPT ![c] = [method |-> method, path |-> path]]
           /\ stale' = [stale EXCEPT ![c] = routeParameters[c] # EmptyParameters]
           /\ scanned' = [scanned EXCEPT ![c] = entered.outcomes]
           /\ route' = [route EXCEPT ![c] = entered.route]
           /\ routeParameters' = [routeParameters EXCEPT ![c] = entered.parameters]
           /\ middlewares' = [middlewares EXCEPT ![c] = entered.chain]
           /\ currentIndex' = [currentIndex EXCEPT ![c] = entered.currentIndex]
           /\ pending' = [pending EXCEPT ![c] = NoError]
           /\ stack' = [stack EXCEPT ![c] = Frames(entered.calls)]
           /\ log' = [log EXCEPT ![c] = CallEvents(entered.calls)]
           /\ IF entered.calls = <<>>
              THEN /\ status' = [status EXCEPT ![c] = Settle(entered.error).status]
                   /\ thrown' = [thrown EXCEPT ![c] = Settle(entered.error).thrown]
              ELSE /\ status' = [status EXCEPT ![c] = "running"]
                   /\ thrown' = [thrown EXCEPT ![c] = NoError]
           /\ routes' = Iterated(routes, entered.outcomes)
    /\ called' = Recorded("execute", route[c], <<>>,
                          request[c] = [method |-> method, path |-> path],
                          [op |-> called.op, argument |-> called.argument])

Top(c) == stack[c][Len(stack[c])]

Pop(c) == SubSeq(stack[c], 1, Len(stack[c]) - 1)

\* The invocations of a continuation, in the log, by an element that had
\* invoked it before.
Repeats(lg) ==
    Cardinality({i \in 1..Len(lg) :
        lg[i].ev = "proceed" /\ \E j \in 1..(i - 1) : lg[j] = lg[i]})

\* A faulty variant of Cursor: one cursor kept by the router for all its
\* dispatches.
CursorShared(c) == currentIndex[1]

\* The cursor executeMiddleware closes over: `let currentIndex` is local to
\* the call of execute.
Cursor(c) == currentIndex[c]

\* The running chain element invokes the continuation it was handed
\* (executeMiddleware), awaiting it.
Proceed(c) ==
    /\ status[c] = "running" /\ pending[c] = NoError
    /\ stack[c] # <<>>
    /\ Top(c).fn # NextFn
    /\ Top(c).calls > 0 => Repeats(log[c]) < MaxRepeats
    /\ \E step \in {executeMiddleware(Cursor(c), middlewares[c])} :
           /\ currentIndex' = [currentIndex EXCEPT ![c] = step.currentIndex]
           /\ stack' = [stack EXCEPT ![c] =
                           [stack[c] EXCEPT ![Len(stack[c])].calls = @ + 1]
                               \o Frames(step.calls)]
           /\ log' = [log EXCEPT ![c] =
                         @ \o <<Event("proceed", Top(c).fn, NoError)>>
                           \o CallEvents(step.calls)]
    /\ UNCHANGED <<routes, called, routeParameters, status, request, stale, scanned,
                   route, middlewares, pending, thrown>>

\* The innermost call ends with `error` (NoError: it returns): its caller
\* resumes, or, when it was the outermost, execute settles.
Unwind(c, error) ==
    /\ stack' = [stack EXCEPT ![c] = Pop(c)]
    /\ IF Len(stack[c]) = 1
       THEN /\ status' = [status EXCEPT ![c] = Settle(error).status]
            /\ thrown' = [thrown EXCEPT ![c] = Settle(error).thrown]
            /\ pending' = [pending EXCEPT ![c] = NoError]
       ELSE /\ pending' = [pending EXCEPT ![c] = error]
            /\ UNCHANGED <<status, thrown>>
    /\ UNCHANGED <<routes, called, routeParameters, request, stale, scanned, route,
                   middlewares, currentIndex>>

\* The running function (a chain element or the outer next) returns.
Return(c) ==
    /\ status[c] = "running" /\ pending[c] = NoError
    /\ Unwind(c, NoError)
    /\ UNCHANGED log

\* The running chain element raises an error.
Throw(c, e) ==
    /\ status[c] = "running" /\ pending[c] = NoError
    /\ stack[c] # <<>>
    /\ Top(c).fn # NextFn
    /\ Unwind(c, e)
    /\ log' = [log EXCEPT ![c] = Append(@, Event("throw", Top(c).fn, e))]

\* The chain element whose awaited continuation rejected catches the error.
Catch(c) ==
    /\ status[c] = "running" /\ pending[c] # NoError
    /\ pending' = [pending EXCEPT ![c] = NoError]
    /\ log' = [log EXCEPT ![c] = Append(@, Event("catch", Top(c).fn, pending[c]))]
    /\ UNCHANGED <<routes, called, routeParameters, status, request, stale, scanned,
                   route, middlewares, currentIndex, stack, thrown>>

\* The chain element whose awaited continuation rejected does not catch.
Rethrow(c) ==
    /\ status[c] = "running" /\ pending[c] # NoError
    /\ Unwind(c, pending[c])
    /\ UNCHANGED log

Next ==
    \/ \E r \in RouteObjects : addRoute(r)
    \/ \E r \in RouteObjects : removeRoute(r)
    \/ \E c \in DispatchContexts, method \in Methods, path \in RequestPaths :
          execute(c, method, path)
    \/ \E c \in DispatchContexts : Proceed(c)
    \/ \E c \in DispatchContexts : Return(c)
    \/ \E c \in DispatchContexts, e \in HandlerErrors : Throw(c, e)
    \/ \E c \in DispatchContexts : Catch(c)
    \/ \E c \in DispatchContexts : Rethrow(c)

Spec == Init /\ [][Next]_vars

\* The request paths dispatched while the registry changes: one for PathA,
\* one for PathF.
RegistryPaths == {<< <<"a">>, <<"4", "%", "2", "0", "2">> >>, << <<"f">>, <<"7">> >>}

\* The registry and its callers, with the calls recorded.  Chain elements
\* return without invoking their continuation.
InitRegistry ==
    /\ routes = <<>>
    /\ called = [NotCalled EXCEPT !.on = TRUE]
    /\ Idle

NextRegistry ==
    \/ \E r \in RouteObjects : addRoute(r)
    \/ \E r \in RouteObjects : removeRoute(r)
    \/ getRoutes
    \/ \E c \in DispatchContexts, method \in Methods, path \in RegistryPaths :
          execute(c, method, path)
    \/ \E c \in DispatchContexts : Return(c)

SpecRegistry == InitRegistry /\ [][NextRegistry]_vars

\* The registry filled from files and directories, with the calls recorded.
NextLoader ==
    \/ \E file \in Files : loadRoutesFile(file)
    \/ \E directory \in Directories : loadRoutesDirectory(directory)
    \/ \E r \in RouteObjects : addRoute(r)
    \/ \E r \in RouteObjects : removeRoute(r)
    \/ getRoutes

SpecLoader == InitRegistry /\ [][NextLoader]_vars

\* Registries set up before requests arrive and left alone afterwards.
FixedRegistries == {<<Route1, Route2>>, <<Route3, Route1>>}

\* Two dispatches in flight on one router whose registry was set up before
\* and does not change.  Chain elements do not raise errors.
InitConcurrent ==
    /\ routes \in FixedRegistries
    /\ called = NotCalled
    /\ Idle

NextConcurrent ==
    \/ \E c \in ConcurrentContexts, method \in Methods, path \in RegistryPaths :
          execute(c, method, path)
    \/ \E c \in ConcurrentContexts : Proceed(c)
    \/ \E c \in ConcurrentContexts : Return(c)

SpecConcurrent == InitConcurrent /\ [][NextConcurrent]_vars

\* The function running in the dispatch of c settles: it returns, raises an
\* error, or passes on the rejection of the continuation it awaited.
Settles(c) ==
    \/ Return(c)
    \/ \E e \in HandlerErrors : Throw(c, e)
    \/ Rethrow(c)

\* Dispatches on a router whose registry does not change, where every
\* function that was called settles in the end.
InitTermination ==
    /\ routes \in FixedRegistries
    /\ called = NotCalled
    /\ Idle

NextTermination ==
    \/ \E c \in DispatchContexts, method \in Methods, path \in RequestPaths :
          execute(c, method, path)
    \/ \E c \in DispatchContexts : Proceed(c)
    \/ \E c \in DispatchContexts : Return(c)
    \/ \E c \in DispatchContexts, e \in HandlerErrors : Throw(c, e)
    \/ \E c \in DispatchContexts : Catch(c)
    \/ \E c \in DispatchContexts : Rethrow(c)

SpecTermination ==
    /\ InitTermination
    /\ [][NextTermination]_vars
    /\ \A c \in DispatchContexts : WF_vars(Settles(c))

\* ------------------------------------------------------------- properties

\* The step is the synchronous part of an execute on context c.
Entering(c) == status[c] # "running" /\ DispatchOf(c)' # DispatchOf(c)

\* The step is a call of executeMiddleware by a running chain element.
Proceeding(c) == status[c] = "running" /\ currentIndex'[c] # currentIndex[c]

\* The route matches the request by method and by path.
Matches(r, req) ==
    /\ r.method = "ALL" \/ r.method = req.method
    /\ ~Exec(pathToRegexp(r.path), req.path).null

\* rs[i] is the first route of rs that matches the request.
IsFirstMatch(rs, i, req) ==
    Matches(rs[i], req) /\ \A j \in 1..(i - 1) : ~Matches(rs[j], req)

\* The functions called so far in the dispatch of c, in the order of the calls.
Calls(c) ==
    LET at == {i \in 1..Len(log[c]) : log[c][i].ev = "call"}
        nth(k) == CHOOSE i \in at : Cardinality({j \in at : j <= i}) = k
    IN  [k \in 1..Cardinality(at) |-> log[c][nth(k)].fn]

\* How often the outer next was invoked in the dispatch of c.
NextCalls(c) ==
    Cardinality({i \in 1..Len(log[c]) : log[c][i] = Event("call", NextFn, NoError)})

\* The functions of a route.
Elements(r) == {ChainOf(r)[k] : k \in 1..Len(ChainOf(r))}

\* C1: a dispatch launches the chain of the first route, in registration
\* order, whose method is "ALL" or the request's and whose path matches the
\* request path, and every function called in the dispatch, however the chain
\* goes on, is an element of that route or the outer next: no element of
\* another route runs.
C1_FirstMatchOnly ==
    [][\A c \in Contexts :
          /\ Entering(c) =>
                \A i \in 1..Len(routes) :
                    IsFirstMatch(routes, i, request'[c]) =>
                        /\ route'[c] = routes[i]
                        /\ thrown'[c] = NoError =>
                              /\ middlewares'[c] = ChainOf(routes[i])
                              /\ log'[c] = <<Event("call", ChainOf(routes[i])[1], NoError)>>
          /\ \A k \in 1..Len(log'[c]) :
                log'[c][k].fn \in Elements(route'[c]) \cup {NextFn}
      ]_vars

\* C1 witness: with Route1 registered before Route2, a GET that both match is
\* running the whole chain of Route1.
C1_Witness ==
    \E c \in Contexts :
        /\ routes = <<Route1, Route2>>
        /\ request[c].method = "GET"
        /\ route[c] = Route1
        /\ Calls(c) = <<"m1a", "m1b", "h1", NextFn>>

\* The function called after the element at position k of the chain: the next
\* element, or the outer next after the handler.
Successor(chain, k) == IF k < Len(chain) THEN chain[k + 1] ELSE NextFn

\* C2: within the chain of the matched route, the element after position k
\* (the outer next, after the handler) is called only after the element at
\* position k has invoked its continuation, whatever the elements do; so an
\* element that never invokes it keeps every later element and the outer
\* next from running.
C2_Sequential ==
    \A c \in Contexts :
        \A i \in 1..Len(log[c]) :
            \A k \in 1..Len(middlewares[c]) :
                log[c][i] = Event("call", Successor(middlewares[c], k), NoError) =>
                    \E j \in 1..(i - 1) :
                        log[c][j] = Event("proceed", middlewares[c][k], NoError)

\* C3: a dispatch that no registered route matches, the empty registry
\* included, calls the outer next once and nothing else, and raises no error.
C3_NoMatchFallsThrough ==
    [][\A c \in Contexts :
          /\ (Entering(c) /\ \A i \in 1..Len(routes) : ~Matches(routes[i], request'[c]))
                => /\ route'[c] = NoRoute
                   /\ status'[c] = "running"
          /\ (route'[c] = NoRoute /\ status'[c] # "idle")
                => /\ log'[c] = <<Event("call", NextFn, NoError)>>
                   /\ status'[c] \in {"running", "done"}
                   /\ thrown'[c] = NoError
      ]_vars

\* C3 witness: a dispatch on a registry whose routes did not match has
\* completed, having called the outer next once.
C3_Witness ==
    \E c \in Contexts :
        /\ routes = <<Route1, Route3>>
        /\ request[c] = [method |-> "POST", path |-> << <<"a">>, <<"%", "E", "0">> >>]
        /\ route[c] = NoRoute
        /\ status[c] = "done"
        /\ NextCalls(c) = 1

\* C4: a call of executeMiddleware with the cursor at the handler or beyond
\* calls the outer next, and nothing of the loop over the routes is redone:
\* the routes visited and the matched route stay as they were.
C4_ProceedPastEnd ==
    [][\A c \in Contexts :
          (Proceeding(c) /\ currentIndex[c] + 1 >= Len(middlewares[c])) =>
              /\ log'[c] = log[c] \o <<Event("proceed", Top(c).fn, NoError),
                                       Event("call", NextFn, NoError)>>
              /\ Top(c)'.fn = NextFn
              /\ scanned'[c] = scanned[c]
              /\ route'[c] = route[c]
              /\ routeParameters'[c] = routeParameters[c]
      ]_vars

\* C4 witness: the handler of Route1 invoked its continuation and the outer
\* next is running, with Route2, which matches as well, registered after it.
C4_Witness ==
    \E c \in Contexts :
        /\ routes = <<Route1, Route2>>
        /\ route[c] = Route1
        /\ Len(log[c]) >= 2
        /\ log[c][Len(log[c]) - 1] = Event("proceed", "h1", NoError)
        /\ Top(c).fn = NextFn

\* C5, as stated: whenever some route matched, the outer next is not invoked
\* in that dispatch.
C5_NextOnlyWithoutMatch ==
    \A c \in Contexts : route[c] # NoRoute => NextCalls(c) = 0

\* C5, amended: when a route matched, the outer next is invoked only by a
\* call of executeMiddleware that found the cursor past the last element of
\* the chain: every call of the outer next directly follows an invocation
\* of a continuation, the handler has been called before it, and the cursor
\* is past the chain.
C5_NextOnlyPastChain ==
    \A c \in Contexts :
        route[c] # NoRoute =>
            \A i \in 1..Len(log[c]) :
                log[c][i] = Event("call", NextFn, NoError) =>
                    /\ currentIndex[c] >= Len(middlewares[c])
                    /\ i > 1 /\ log[c][i - 1].ev = "proceed"
                    /\ \E j \in 1..(i - 1) :
                          log[c][j] = Event("call", route[c].handler, NoError)

\* C5 witness: the chain of a matched route went to its end and the outer
\* next was invoked.
C5_Witness ==
    \E c \in Contexts :
        /\ route[c] = Route3
        /\ Calls(c) = <<"m3", "h3", NextFn>>
        /\ status[c] = "done"

\* C6: in the loop of a dispatch, a route registered with "ALL" is never
\* skipped for its method, a route registered with another method than the
\* request's is skipped without its path being tried and is never the route
\* selected, and routes skipped for their method do not keep a matching route
\* registered after them from being selected.
C6_MethodCheck ==
    [][\A c \in Contexts :
          Entering(c) =>
              /\ Len(scanned'[c]) <= Len(routes)
              /\ \A i \in 1..Len(scanned'[c]) :
                    /\ routes[i].method = "ALL" => scanned'[c][i] # "skipped"
                    /\ routes[i].method \notin {"ALL", request'[c].method}
                          => scanned'[c][i] = "skipped"
              /\ route'[c] # NoRoute => route'[c].method \in {"ALL", request'[c].method}
              /\ \A j \in 1..Len(routes) :
                    (/\ Matches(routes[j], request'[c])
                     /\ \A i \in 1..(j - 1) :
                           routes[i].method \notin {"ALL", request'[c].method})
                        => /\ Len(scanned'[c]) = j
                           /\ route'[c] = routes[j]
      ]_vars

\* C6 witness: a POST skipped the GET route registered first and runs the
\* "ALL" route registered after it.
C6_Witness ==
    \E c \in Contexts :
        /\ routes = <<Route1, Route2>>
        /\ request[c].method = "POST"
        /\ scanned[c] = <<"skipped", "matched">>
        /\ route[c] = Route2
        /\ Calls(c) = <<"h2">>

\* The capture groups of the request path of c under the path of its matched route.
GroupsOf(c) == Exec(pathToRegexp(route[c].path), request[c].path).groups

\* C7: throughout a dispatch, whatever the context held before it, the
\* parameter mapping holds nothing but parameters of the route this dispatch
\* matched, each with the decoding of a capture of this request: it is empty
\* when no route matched, hence when the outer next is invoked then.
C7_NothingLeftOver ==
    \A c \in Contexts :
        status[c] # "idle" =>
            /\ route[c] = NoRoute => routeParameters[c] = EmptyParameters
            /\ \A n \in DOMAIN routeParameters[c] :
                  \E i \in 1..Len(KeysOf(route[c].path)) :
                      /\ KeysOf(route[c].path)[i] = n
                      /\ decodeURIComponent(GroupsOf(c)[i]).ok
                      /\ routeParameters[c][n] = decodeURIComponent(GroupsOf(c)[i]).v

\* C7 witness: a dispatch that began on a context holding parameters of an
\* earlier dispatch matched no route and is in the outer next.
C7_Witness ==
    \E c \in Contexts :
        /\ stale[c]
        /\ route[c] = NoRoute
        /\ status[c] = "running"
        /\ Top(c).fn = NextFn
        /\ routeParameters[c] = EmptyParameters

\* C8: when a dispatch matched a route and its parameters decoded, then as
\* the first element of the chain starts the mapping holds exactly one entry
\* per capture index that has an entry in rawRouteParameters, under that
\* entry's name, with the decoding of the capture as decodeURIComponent gives
\* it (of "4%202", the text "4 2"), and nothing for the other captures.
C8_DecodedParameters ==
    [][\A c \in Contexts :
          (Entering(c) /\ route'[c] # NoRoute /\ thrown'[c] = NoError) =>
              LET keys == KeysOf(route'[c].path)
                  groups == GroupsOf(c)'
                  slots == {i \in 1..Len(groups) : i <= Len(keys)}
              IN  /\ log'[c] = <<Event("call", ChainOf(route'[c])[1], NoError)>>
                  /\ DOMAIN routeParameters'[c] = {keys[i] : i \in slots}
                  /\ \A i \in slots :
                        \/ /\ groups[i] = <<"4", "%", "2", "0", "2">>
                           /\ routeParameters'[c][keys[i]] = <<"4", " ", "2">>
                        \/ /\ groups[i] # <<"4", "%", "2", "0", "2">>
                           /\ decodeURIComponent(groups[i]).ok
                           /\ routeParameters'[c][keys[i]] = decodeURIComponent(groups[i]).v
      ]_vars

\* C8 witness: "/a/4%202" matched "/a/:x" and the first middleware of the
\* route has started with x decoded.
C8_Witness ==
    \E c \in Contexts :
        /\ request[c].path = << <<"a">>, <<"4", "%", "2", "0", "2">> >>
        /\ route[c] = Route1
        /\ log[c] = <<Event("call", "m1a", NoError)>>
        /\ routeParameters[c] = Put(EmptyParameters, "x", <<"4", " ", "2">>)

\* C9: when a capture of the first matching route that has a parameter name
\* cannot be decoded, execute rejects with the URIError at once: no element
\* of the route and no outer next is called, and the loop visits no route
\* after it.
C9_DecodeFailure ==
    [][\A c \in Contexts :
          Entering(c) =>
              \A i \in 1..Len(routes) :
                  (/\ IsFirstMatch(routes, i, request'[c])
                   /\ \E k \in 1..Len(KeysOf(routes[i].path)) :
                         ~decodeURIComponent(
                             Exec(pathToRegexp(routes[i].path), request'[c].path).groups[k]).ok)
                      => /\ status'[c] = "failed"
                         /\ thrown'[c] = URIError
                         /\ log'[c] = <<>>
                         /\ stack'[c] = <<>>
                         /\ Len(scanned'[c]) = i
      ]_vars

\* C9 witness: "/a/%E0" matched Route1, the decoding failed, and Route2,
\* which matches as well, was not visited.
C9_Witness ==
    \E c \in Contexts :
        /\ routes = <<Route1, Route2>>
        /\ request[c] = [method |-> "GET", path |-> << <<"a">>, <<"%", "E", "0">> >>]
        /\ status[c] = "failed"
        /\ thrown[c] = URIError
        /\ scanned[c] = <<"matched">>
        /\ log[c] = <<>>

\* No chain element has caught an error in the dispatch of c.
NothingCaught(c) == \A i \in 1..Len(log[c]) : log[c][i].ev # "catch"

\* C10: when a chain element raises an error and no element catches it, the
\* raising is the last thing that happens in the dispatch (no further
\* element and no outer next is called), the error travels up the awaiting
\* calls, and execute does not complete but rejects with that error.
C10_HandlerErrorPropagates ==
    \A c \in Contexts :
        NothingCaught(c) =>
            \A i \in 1..Len(log[c]) :
                log[c][i].ev = "throw" =>
                    /\ i = Len(log[c])
                    /\ status[c] \in {"running", "failed"}
                    /\ status[c] = "running" => pending[c] = log[c][i].err
                    /\ status[c] = "failed" => thrown[c] = log[c][i].err

\* C10 witness: the handler of Route1 raised E1 after both middlewares had
\* invoked their continuations, nothing caught it, and execute rejected with E1.
C10_Witness ==
    \E c \in Contexts :
        /\ NothingCaught(c)
        /\ Calls(c) = <<"m1a", "m1b", "h1">>
        /\ log[c][Len(log[c])] = Event("throw", "h1", "E1")
        /\ status[c] = "failed"
        /\ thrown[c] = "E1"

\* ------------------------------------------------------------- registry claims

\* The indexes of rs that hold the route object r.
Occurrences(rs, r) == {i \in 1..Len(rs) : rs[i] = r}

Redispatched(c) ==
    /\ called.op = "removeRoute"
    /\ called'.op = "execute" /\ called'.again
    /\ status[c] # "running" /\ status'[c] = "running"
    /\ route[c] # NoRoute /\ called.argument = route[c]

\* The dispatch entered on context c selected the first registered route that
\* matches its request, or, when none matches, called the outer next.
FirstMatchOrNext(c) ==
    IF \E i \in 1..Len(routes) : Matches(routes[i], request'[c])
    THEN \E i \in 1..Len(routes) :
            IsFirstMatch(routes, i, request'[c]) /\ route'[c] = routes[i]
    ELSE route'[c] = NoRoute /\ Calls(c)' = <<NextFn>>

\* C12 as stated: after removeRoute of the route a request had matched, a
\* dispatch of the same request does not run that route, in every registry
\* that addRoute and removeRoute can build: it runs the next route that
\* matches, or the outer next.
C12_RemovedNeverRuns ==
    [][\A c \in Contexts :
          Redispatched(c) => route'[c] # route[c] /\ FirstMatchOrNext(c)
      ]_vars

\* C12 amended: after removeRoute of the route a request had matched, a
\* dispatch of the same request runs the first registered route that matches
\* or, when none does, the outer next; it runs the removed route again only
\* when that route object was registered more than once before the removal.
C12_RemovedRunsOnlyIfDuplicate ==
    [][\A c \in Contexts :
          Redispatched(c) =>
              /\ FirstMatchOrNext(c)
              /\ route'[c] = route[c] =>
                    Cardinality(Occurrences(called.before, route[c])) > 1
      ]_vars

\* C12 witness: Route1 had matched the request, was removed, and the same
\* request now runs Route2, registered after it.
C12_Witness ==
    \E c \in Contexts :
        /\ called.op = "execute" /\ called.again
        /\ called.prior = [op |-> "removeRoute", argument |-> Route1]
        /\ called.argument = Route1
        /\ routes = <<Route2>>
        /\ route[c] = Route2
        /\ Calls(c) = <<"h2">>

\* C13: addRoute(r) appends r at the end of the registry: the length grows by
\* one and the earlier entries keep their positions, also when r is already
\* registered (it then appears twice); getRoutes() returns the entries in
\* that order.
C13_AddAppends ==
    /\ called.op = "addRoute" =>
          /\ Len(routes) = Len(called.before) + 1
          /\ \A j \in 1..Len(called.before) : routes[j] = called.before[j]
          /\ routes[Len(routes)] = called.argument
    /\ called.op = "getRoutes" => called.returned = routes

\* C13 witness: addRoute(Route1) on a registry that held Route1 made it hold
\* Route1 twice.
C13_Witness ==
    /\ called.op = "addRoute"
    /\ called.argument = Route1
    /\ called.before = <<Route1>>
    /\ routes = <<Route1, Route1>>

\* ------------------------------------------------------------- dispatch claims

\* C14: no step of a dispatch (the scan, the launch of the chain, a
\* continuation, a return, an error) changes the registry or a route in it,
\* whatever the request and the outcome; the registry changes only by
\* addRoute and removeRoute.
C14_DispatchLeavesRegistry ==
    [][(\E c \in Contexts : DispatchOf(c)' # DispatchOf(c)) => routes' = routes]_vars

\* C14 witness: a dispatch that matched Route1 failed with an error of a
\* chain element, and the registry still holds both routes.
C14_Witness ==
    \E c \in Contexts :
        /\ routes = <<Route1, Route2>>
        /\ route[c] = Route1
        /\ status[c] = "failed"
        /\ thrown[c] \in HandlerErrors

\* C15: with two contexts dispatched on one router whose registry does not
\* change, in every interleaving of their steps each dispatch has the route,
\* the parameters and the chain that execute gives its request on its own,
\* has called the elements of that chain in their order (then the outer
\* next), and its cursor counts its own calls only.
C15_NoInterference ==
    \A c \in Contexts :
        status[c] # "idle" =>
            LET alone == Entered(routes, EmptyParameters, request[c].method,
                                 request[c].path)
                calls == Calls(c)
            IN  /\ route[c] = alone.route
                /\ routeParameters[c] = alone.parameters
                /\ middlewares[c] = alone.chain
                /\ \A k \in 1..Len(calls) :
                      calls[k] = IF k <= Len(alone.chain) THEN alone.chain[k]
                                   ELSE NextFn
                /\ route[c] # NoRoute => currentIndex[c] = Len(calls) - 1

\* C15 witness: two dispatches are in flight at once, one in the chain of
\* Route1 and one in the chain of Route3, each with its own parameters.
C15_Witness ==
    /\ status[1] = "running" /\ status[2] = "running"
    /\ route[1] = Route1 /\ route[2] = Route3
    /\ Calls(1) = <<"m1a", "m1b">>
    /\ Calls(2) = <<"m3", "h3", NextFn>>
    /\ DOMAIN routeParameters[1] = {"x"}
    /\ DOMAIN routeParameters[2] = {"name"}

\* C16: in one dispatch the outer next is invoked at most once, also when a
\* chain element invokes the continuation it was handed more than once.
C16_NextAtMostOnce ==
    \A c \in Contexts : NextCalls(c) <= 1

\* How often the function fn was called in the log.
TimesCalled(lg, fn) ==
    Cardinality({i \in 1..Len(lg) : lg[i] = Event("call", fn, NoError)})

\* C17: while a dispatch runs its cursor never moves back, and each element
\* of the chain is called at most once in the dispatch, also when an element
\* invokes its continuation again.
C17_CursorForward ==
    [][\A c \in Contexts :
          /\ status[c] = "running" => currentIndex'[c] >= currentIndex[c]
          /\ route'[c] # NoRoute =>
                \A fn \in Elements(route'[c]) : TimesCalled(log'[c], fn) <= 1
      ]_vars

\* C17 witness: m1a invoked its continuation a second time after m1b had
\* returned; every element of Route1 was called once, then the outer next.
C17_Witness ==
    \E c \in Contexts :
        /\ route[c] = Route1
        /\ Repeats(log[c]) > 0
        /\ currentIndex[c] = 3
        /\ Calls(c) = <<"m1a", "m1b", "h1", NextFn>>

\* C18: every value of the parameter mapping is the decoding of a substring
\* that the match captured: a named capture group that took no part in the
\* match (an optional parameter that is absent) gets no entry.
C18_OnlyCaptured ==
    \A c \in Contexts :
        status[c] # "idle" =>
            \A n \in DOMAIN routeParameters[c] :
                \E i \in 1..Len(KeysOf(route[c].path)) :
                    /\ KeysOf(route[c].path)[i] = n
                    /\ GroupsOf(c)[i] # Undefined
                    /\ DecodeChars(GroupsOf(c)[i]).ok
                    /\ routeParameters[c][n] = DecodeChars(GroupsOf(c)[i]).v

\* C19: with a registry that does not change, where every function called
\* settles in the end and the elements invoke their continuations finitely
\* often, every dispatch completes: the promise of execute resolves or
\* rejects.
C19_DispatchCompletes ==
    \A c \in DispatchContexts :
        (status[c] = "running") ~> (status[c] \in {"done", "failed"})

\* C19 witness: a dispatch completed after an element had caught an error of
\* a later one, invoked its continuation again, and the chain had gone on to
\* the outer next.
C19_Witness ==
    \E c \in Contexts :
        /\ status[c] = "done"
        /\ route[c] = Route1
        /\ ~NothingCaught(c)
        /\ Repeats(log[c]) > 0
        /\ NextCalls(c) > 0

\* ------------------------------------------------------------- loader claims

RECURSIVE Exported(_, _)
\* The routes exported by the .js files among the entries from i on and,
\* recursively, in their subdirectories, in the order of the entries.
Exported(entries, i) ==
    IF i > Len(entries) THEN <<>>
    ELSE (IF entries[i].isDirectory THEN Exported(entries[i].entries, 1)
          ELSE IF entries[i].ext = ".js"
               THEN entries[i].fritterRouterRoute \o entries[i].fritterRouterRoutes
               ELSE <<>>)
         \o Exported(entries, i + 1)

\* The entries a call appended to the registry it found.
Appended == SubSeq(routes, Len(called.before) + 1, Len(routes))

\* C20: loadRoutesDirectory appends to the registry every route exported by
\* a .js file of the directory or, recursively, of a subdirectory, and
\* nothing for other files; the list it returns holds exactly the routes it
\* appended, as the list loadRoutesFile returns does for one file.
C20_DirectoryRoutesReturned ==
    /\ called.op = "loadRoutesFile" =>
          /\ routes = called.before \o Appended
          /\ called.returned = Appended
    /\ called.op = "loadRoutesDirectory" =>
          /\ routes = called.before \o Appended
          /\ Appended = Exported(called.argument.entries, 1)
          /\ called.returned = Appended

\* What holds of the two loaders: both append the exported routes, and
\* loadRoutesFile returns the routes it appended.
C20_RoutesAppended ==
    /\ called.op = "loadRoutesFile" =>
          /\ routes = called.before \o Appended
          /\ called.returned = Appended
          /\ Appended = Exported(<<called.argument>>, 1)
    /\ called.op = "loadRoutesDirectory" =>
          /\ routes = called.before \o Appended
          /\ Appended = Exported(called.argument.entries, 1)

====
